---- MODULE Spec2Model ----
(***************************************************************************)
(* Multi-currency Money and Bank of src/lib.rs.                            *)
(*                                                                         *)
(* T is instantiated with a signed integer type, as in the tests of        *)
(* lib.rs: `/` is Rust's integer division (truncation toward zero, panic   *)
(* on a zero divisor).  All amounts, factors and rates of the model are    *)
(* small, so no product or sum comes near the limits of the integer type.  *)
(*                                                                         *)
(* A Money is the sequence of its (Currency, T) entries, an entry the pair *)
(* <<currency, amount>>.  A Bank is the record of its one field, rates, a  *)
(* function whose domain is the set of stored (from, to) keys.             *)
(* The outcome of a call is a record [kind, val, money, msg]:              *)
(*   kind = "Some"  exchange returned Some(val)                            *)
(*   kind = "None"  exchange returned None                                 *)
(*   kind = "Money" reduce / times / add returned the Money `money`        *)
(*   kind = "Unit"  add_rate returned                                      *)
(*   kind = "Panic" the call unwound with message msg                      *)
(***************************************************************************)
EXTENDS Integers, Sequences, FiniteSets

VARIABLES bank, first, args, last

vars == <<bank, first, args, last>>

\* ------------------------------------------------------------- bounds
MaxAmount == 1
MaxRate == 2
MaxFactor == 2
MaxArgs == 2

Amounts == (0 - MaxAmount)..MaxAmount
Rates == 0..MaxRate
Factors == (0 - 1)..MaxFactor

\* ------------------------------------------------------------- Currency
Currency == {"Doller", "Franc"}

\* ------------------------------------------------------------- outcomes
Some(v) == [kind |-> "Some", val |-> v, money |-> <<>>, msg |-> ""]

None == [kind |-> "None", val |-> 0, money |-> <<>>, msg |-> ""]

Returned(m) == [kind |-> "Money", val |-> 0, money |-> m, msg |-> ""]

Unit == [kind |-> "Unit", val |-> 0, money |-> <<>>, msg |-> ""]

Panic(m) == [kind |-> "Panic", val |-> 0, money |-> <<>>, msg |-> m]

DivZeroMsg == "attempt to divide by zero"

ConvertMsg == "Can't convert the amount"

\* ------------------------------------------------------------- T
Abs(x) == IF x < 0 THEN 0 - x ELSE x

\* T::div for a non-zero divisor: the quotient truncated toward zero.
Div(x, y) ==
    LET q == Abs(x) \div Abs(y)
    IN  IF (x < 0) = (y < 0) THEN q ELSE 0 - q

\* T::default()
Default == 0

\* ------------------------------------------------------------- Money
doller(amount) == << <<"Doller", amount>> >>

franc(amount) == << <<"Franc", amount>> >>

\* times with only the first entry scaled.
times_first(self, t) ==
    [i \in 1..Len(self) |-> IF i = 1 THEN <<self[i][1], self[i][2] * t>> ELSE self[i]]

times(self, t) == [i \in 1..Len(self) |-> <<self[i][1], self[i][2] * t>>]

\* + with rhs's entries put first.
add_swapped(self, rhs) == rhs \o self

add(self, rhs) == self \o rhs

\* derive(PartialEq) on the Vec of entries.
eq(self, other) == self = other

\* ------------------------------------------------------------- Bank
new == [rates |-> <<>>]

\* exchange without the from == to return.
exchange_lookup(self, amount, from, to) ==
    IF <<from, to>> \in DOMAIN self.rates
    THEN IF self.rates[<<from, to>>] = 0
         THEN Panic(DivZeroMsg)
         ELSE Some(Div(amount, self.rates[<<from, to>>]))
    ELSE IF <<to, from>> \in DOMAIN self.rates
         THEN Some(amount * self.rates[<<to, from>>])
    ELSE None

exchange(self, amount, from, to) ==
    IF from = to THEN Some(amount)
    ELSE IF <<from, to>> \in DOMAIN self.rates
         THEN IF self.rates[<<from, to>>] = 0
              THEN Panic(DivZeroMsg)
              ELSE Some(Div(amount, self.rates[<<from, to>>]))
    ELSE IF <<to, from>> \in DOMAIN self.rates
         THEN Some(amount * self.rates[<<to, from>>])
    ELSE None

\* The closure of reduce's map: one entry to its exchanged amount, or a panic.
Convert(self, entry, to) ==
    LET e == exchange(self, entry[2], entry[1], to)
    IN  IF e.kind = "None" THEN Panic(ConvertMsg) ELSE e

\* map and fold run interleaved over the entries, first to last: the first
\* entry whose conversion panics ends the call.
RECURSIVE Fold(_, _, _, _)
Fold(self, entries, to, acc) ==
    IF entries = <<>> THEN Some(acc)
    ELSE LET v == Convert(self, Head(entries), to)
         IN  IF v.kind = "Panic" THEN v
             ELSE Fold(self, Tail(entries), to, acc + v.val)

\* reduce that leaves out the entries exchange has no rate for.
RECURSIVE FoldKnown(_, _, _, _)
FoldKnown(self, entries, to, acc) ==
    IF entries = <<>> THEN Some(acc)
    ELSE LET e == exchange(self, Head(entries)[2], Head(entries)[1], to)
         IN  IF e.kind = "Panic" THEN e
             ELSE FoldKnown(self, Tail(entries), to,
                            IF e.kind = "None" THEN acc ELSE acc + e.val)

reduce_known(self, money, to) ==
    LET sum == FoldKnown(self, money, to, Default)
    IN  IF sum.kind = "Panic" THEN sum ELSE Returned(<< <<to, sum.val>> >>)

\* reduce that looks the rate up once, for the currency of the first entry.
reduce_first(self, money, to) ==
    LET sum == Fold(self, [i \in 1..Len(money) |-> <<money[1][1], money[i][2]>>],
                    to, Default)
    IN  IF sum.kind = "Panic" THEN sum ELSE Returned(<< <<to, sum.val>> >>)

reduce(self, money, to) ==
    LET sum == Fold(self, money, to, Default)
    IN  IF sum.kind = "Panic" THEN sum ELSE Returned(<< <<to, sum.val>> >>)

\* add_rate that only looks for the reverse key, and overwrites its own.
add_rate_overwrite(self, from, to, rate) ==
    IF <<to, from>> \notin DOMAIN self.rates \/ from = to
    THEN [self EXCEPT !.rates =
            [k \in DOMAIN self.rates \cup {<<from, to>>} |->
                IF k = <<from, to>> THEN rate ELSE self.rates[k]]]
    ELSE self

\* add_rate that only looks for its own key.
add_rate_samekey(self, from, to, rate) ==
    IF <<from, to>> \notin DOMAIN self.rates
    THEN [self EXCEPT !.rates =
            [k \in DOMAIN self.rates \cup {<<from, to>>} |->
                IF k = <<from, to>> THEN rate ELSE self.rates[k]]]
    ELSE self

add_rate(self, from, to, rate) ==
    IF <<from, to>> \notin DOMAIN self.rates /\ <<to, from>> \notin DOMAIN self.rates
    THEN [self EXCEPT !.rates =
            [k \in DOMAIN self.rates \cup {<<from, to>>} |->
                IF k = <<from, to>> THEN rate ELSE self.rates[k]]]
    ELSE self

\* ------------------------------------------------------------- the caller
\* args:  the Money values the caller built with the constructors, in order.
\* last:  the caller's last call, its arguments and its outcome.
\* first: history of add_rate, the first call made for each set {from, to}.
\* The caller sets the bank up, and asks it for single exchanges, before it
\* builds Money values: the bank and the values are disjoint state, so the order
\* of a rate and a constructor loses nothing.
Call(op, lhs, rhs, num, from, to, out) ==
    [op |-> op, lhs |-> lhs, rhs |-> rhs, num |-> num, from |-> from, to |-> to,
     out |-> out]

Idle == Call("idle", <<>>, <<>>, 0, "", "", Unit)

\* a + b + c, as the caller writes it: ((a + b) + c).
RECURSIVE Sum(_)
Sum(ms) ==
    IF Len(ms) = 1 THEN ms[1]
    ELSE add(Sum(SubSeq(ms, 1, Len(ms) - 1)), ms[Len(ms)])

Init ==
    /\ bank = new
    /\ first = <<>>
    /\ args = <<>>
    /\ last = Idle

AddRate(from, to, rate) ==
    /\ args = <<>>
    /\ bank' = add_rate(bank, from, to, rate)
    /\ first' = IF {from, to} \in DOMAIN first THEN first
                ELSE [p \in DOMAIN first \cup {{from, to}} |->
                        IF p = {from, to} THEN <<from, to, rate>> ELSE first[p]]
    /\ last' = Call("add_rate", <<>>, <<>>, rate, from, to, Unit)
    /\ UNCHANGED args

Exchange(amount, from, to) ==
    /\ args = <<>>
    /\ last' = Call("exchange", <<>>, <<>>, amount, from, to,
                    exchange(bank, amount, from, to))
    /\ UNCHANGED <<bank, first, args>>

Doller(n, amount) ==
    /\ Len(args) < n
    /\ args' = Append(args, doller(amount))
    /\ last' = Call("doller", <<>>, <<>>, amount, "", "", Returned(doller(amount)))
    /\ UNCHANGED <<bank, first>>

Franc(n, amount) ==
    /\ Len(args) < n
    /\ args' = Append(args, franc(amount))
    /\ last' = Call("franc", <<>>, <<>>, amount, "", "", Returned(franc(amount)))
    /\ UNCHANGED <<bank, first>>

Reduce(to) ==
    /\ args # <<>>
    /\ last' = Call("reduce", Sum(args), <<>>, 0, "", to, reduce(bank, Sum(args), to))
    /\ UNCHANGED <<bank, first, args>>

Times(t) ==
    /\ args # <<>>
    /\ last' = Call("times", Sum(args), <<>>, t, "", "",
                    Returned(times(Sum(args), t)))
    /\ UNCHANGED <<bank, first, args>>

\* lhs + rhs for the two sides of a split of the values built so far.
Add(n) ==
    /\ n \in 1..(Len(args) - 1)
    /\ LET lhs == Sum(SubSeq(args, 1, n))
           rhs == Sum(SubSeq(args, n + 1, Len(args)))
       IN  last' = Call("add", lhs, rhs, 0, "", "", Returned(add(lhs, rhs)))
    /\ UNCHANGED <<bank, first, args>>

\* ------------------------------------------------------------- specifications
DoAddRate == \E from \in Currency, to \in Currency, rate \in Rates : AddRate(from, to, rate)

DoExchange == \E amount \in Amounts, from \in Currency, to \in Currency :
                 Exchange(amount, from, to)

DoDoller == \E amount \in Amounts : Doller(MaxArgs, amount)

DoFranc == \E amount \in Amounts : Franc(MaxArgs, amount)

DoReduce == \E to \in Currency : Reduce(to)

\* Bank and reduce: rates, exchange, and reduce of sums of up to MaxArgs values.
Next == DoAddRate \/ DoExchange \/ DoDoller \/ DoFranc \/ DoReduce

Spec == Init /\ [][Next]_vars

\* reduce of sums of three values a, b, c.
DollerABC == \E amount \in Amounts : Doller(3, amount)

FrancABC == \E amount \in Amounts : Franc(3, amount)

NextOrder == DoAddRate \/ DollerABC \/ FrancABC \/ DoReduce

SpecOrder == Init /\ [][NextOrder]_vars

\* Money alone: constructors, times and + on three values a, b, c.
DoTimes == \E t \in Factors : Times(t)

DoAdd == \E n \in 1..2 : Add(n)

NextMoney == DollerABC \/ FrancABC \/ DoTimes \/ DoAdd

SpecMoney == Init /\ [][NextMoney]_vars

\* ------------------------------------------------------------- properties
Stored(from, to) == <<from, to>> \in DOMAIN bank.rates

\* exchange has an answer for an amount of currency c asked in currency to.
Convertible(c, to) == c = to \/ Stored(c, to) \/ Stored(to, c)

AllConvertible(money, to) == \A i \in 1..Len(money) : Convertible(money[i][1], to)

\* The amount the specification gives for one entry (c, a) asked in `to`.
Converted(entry, to) ==
    IF entry[1] = to THEN entry[2]
    ELSE IF Stored(entry[1], to) THEN Div(entry[2], bank.rates[<<entry[1], to>>])
    ELSE entry[2] * bank.rates[<<to, entry[1]>>]

RECURSIVE Total(_, _)
Total(money, to) ==
    IF money = <<>> THEN 0 ELSE Converted(Head(money), to) + Total(Tail(money), to)

\* Some stored rate that reduce divides by is zero.
ZeroDivisor(money, to) ==
    \E i \in 1..Len(money) :
        /\ money[i][1] # to
        /\ Stored(money[i][1], to)
        /\ bank.rates[<<money[i][1], to>>] = 0

\* C1: whenever every entry of m is convertible, reduce(m, to) returns the
\* one-entry Money (to, s), s being zero plus each entry's converted amount:
\* a for the target currency, a / rate under a (c, to) rate, a * rate under a
\* (to, c) rate.
C1_ReduceReturnsSum ==
    (last.op = "reduce" /\ AllConvertible(last.lhs, last.to)) =>
        /\ last.out.kind = "Money"
        /\ last.out.money = << <<last.to, Default + Total(last.lhs, last.to)>> >>

\* C1, for the banks in which no rate that reduce divides by is zero.
C1_ReduceSumNoZeroDivisor ==
    (last.op = "reduce" /\ AllConvertible(last.lhs, last.to)
        /\ ~ZeroDivisor(last.lhs, last.to)) =>
        /\ last.out.kind = "Money"
        /\ last.out.money = << <<last.to, Default + Total(last.lhs, last.to)>> >>

C1_Reached ==
    /\ last.op = "reduce"
    /\ Len(last.lhs) = 2
    /\ \E i, j \in 1..2 : last.lhs[i][1] = last.to /\ last.lhs[j][1] # last.to
    /\ AllConvertible(last.lhs, last.to)
    /\ last.out.kind = "Money"
    /\ last.out.money[1][2] < 0

\* C2: first registration wins.  The rate table is exactly the first add_rate
\* call made for each pair of currencies, under that call's key and with that
\* call's rate (so no later call for the pair changed, replaced or removed
\* anything), and exchange converts with that rate in that direction.
C2_FirstRegistrationWins ==
    /\ DOMAIN bank.rates = {<<first[p][1], first[p][2]>> : p \in DOMAIN first}
    /\ \A p \in DOMAIN first : bank.rates[<<first[p][1], first[p][2]>>] = first[p][3]
    /\ (last.op = "exchange" /\ last.from # last.to
            /\ {last.from, last.to} \in DOMAIN first) =>
          LET f == first[{last.from, last.to}]
          IN  IF f[1] = last.to THEN last.out = Some(last.num * f[3])
              ELSE IF f[3] = 0 THEN last.out = Panic(DivZeroMsg)
              ELSE last.out = Some(Div(last.num, f[3]))

\* A later add_rate for a registered pair, in the other direction and with
\* another rate, has been made.
C2_LaterCallMade ==
    /\ last.op = "add_rate"
    /\ last.from # last.to
    /\ {last.from, last.to} \in DOMAIN first
    /\ first[{last.from, last.to}][1] = last.to
    /\ first[{last.from, last.to}][3] # last.num

\* C3: with from != to and no rate under (from, to) nor (to, from), exchange
\* returns None; and reduce panics, returning no Money, as soon as one entry
\* of m has such a currency, the other entries being convertible or not.
C3_MissingRate ==
    /\ (last.op = "exchange" /\ ~Convertible(last.from, last.to)) =>
          last.out = None
    /\ (last.op = "reduce" /\ ~AllConvertible(last.lhs, last.to)) =>
          last.out = Panic(ConvertMsg)

C3_MixedSumPanics ==
    /\ last.op = "reduce"
    /\ Len(last.lhs) = 2
    /\ last.lhs[1][1] = last.to
    /\ ~Convertible(last.lhs[2][1], last.to)
    /\ last.out.kind = "Panic"

\* C4: whatever the rate table holds, exchange(a, C, C) returns a, and
\* reduce(Money(C, a), C) returns Money(C, a).
C4_IdentityConversion ==
    /\ (last.op = "exchange" /\ last.from = last.to) => last.out = Some(last.num)
    /\ (last.op = "reduce" /\ Len(last.lhs) = 1 /\ last.lhs[1][1] = last.to) =>
          /\ last.out.kind = "Money"
          /\ eq(last.out.money, last.lhs)

\* Money(C, a) reduced to C by a bank that holds a rate of zero under (C, C).
C4_ReducedWithSameCurrencyRate ==
    /\ last.op = "reduce"
    /\ Len(last.lhs) = 1
    /\ last.lhs[1][1] = last.to
    /\ last.lhs[1][2] # 0
    /\ Stored(last.to, last.to)
    /\ bank.rates[<<last.to, last.to>>] = 0
    /\ last.out.kind = "Money"

\* C5: m.times(f) has the entries of m, as many and in the same order, each
\* with its currency and with its amount multiplied by f; m is what it was.
C5_TimesScalesEveryEntry ==
    last.op = "times" =>
        /\ last.out.kind = "Money"
        /\ Len(last.out.money) = Len(last.lhs)
        /\ \A i \in 1..Len(last.lhs) :
              /\ last.out.money[i][1] = last.lhs[i][1]
              /\ last.out.money[i][2] = last.lhs[i][2] * last.num
        /\ eq(last.lhs, Sum(args))
        /\ (last.lhs = doller(last.lhs[1][2]))
              => eq(last.out.money, doller(last.lhs[1][2] * last.num))
        /\ (last.lhs = franc(last.lhs[1][2]))
              => eq(last.out.money, franc(last.lhs[1][2] * last.num))

C5_SumScaled ==
    /\ last.op = "times"
    /\ Len(last.lhs) = 3
    /\ last.num = 2
    /\ last.lhs[1][1] # last.lhs[2][1]
    /\ \A i \in 1..3 : last.lhs[i][2] # 0

\* C6: a + b is a's entries followed by b's, each in its order, nothing
\* converted and nothing merged; Money values are equal when these sequences
\* are, so a + b is neither a nor b, a franc is no doller, and
\* (a + b) + c == a + (b + c).
C6_AddConcatenates ==
    /\ \A x \in Amounts : ~eq(franc(x), doller(x))
    /\ last.op = "add" =>
        LET l == last.lhs
            r == last.rhs
            s == last.out.money
        IN  /\ last.out.kind = "Money"
            /\ Len(s) = Len(l) + Len(r)
            /\ \A i \in 1..Len(l) : s[i] = l[i]
            /\ \A j \in 1..Len(r) : s[Len(l) + j] = r[j]
            /\ ~eq(s, l)
            /\ ~eq(s, r)
            /\ (Len(args) = 3 /\ Len(l) = 2) =>
                  eq(s, add(args[1], add(args[2], args[3])))
            /\ (Len(args) = 3 /\ Len(l) = 1) =>
                  eq(s, add(add(args[1], args[2]), args[3]))

\* A sum added to a value of a currency the sum already holds.
C6_SumPlusSameCurrency ==
    /\ last.op = "add"
    /\ Len(last.lhs) = 2
    /\ last.lhs[1][1] = last.rhs[1][1]
    /\ last.lhs[2][1] # last.rhs[1][1]
    /\ last.lhs[1][2] # last.rhs[1][2]

\* C7: of the two keys (A, B) and (B, A) of two distinct currencies the rate
\* table holds at most one.
C7_OneDirectionStored ==
    \A A \in Currency, B \in Currency :
        A # B => ~(Stored(A, B) /\ Stored(B, A))

\* add_rate was called for the reverse of a stored key.
C7_ReverseCallMade ==
    /\ last.op = "add_rate"
    /\ last.from # last.to
    /\ Stored(last.to, last.from)

\* C8: the rate table never holds a key (C, C).
C8_NoSameCurrencyKey == \A k \in DOMAIN bank.rates : k[1] # k[2]

\* C9: unknown exchange rate is the only failure: reduce returns a Money
\* whenever every entry is convertible, whatever the stored rates (zero
\* included), and add_rate always returns.
C9_OnlyMissingRateFails ==
    /\ (last.op = "reduce" /\ AllConvertible(last.lhs, last.to)) =>
          last.out.kind = "Money"
    /\ last.op = "add_rate" => last.out = Unit

\* C10: the reduced result does not depend on the order a sum was built in:
\* reduce gives the same outcome for the values added in any order and in
\* either grouping, though a + b and b + a are different Money values when a
\* and b are.
C10_ReduceOrderIndependent ==
    (last.op = "reduce" /\ AllConvertible(last.lhs, last.to)) =>
        /\ \A n \in 1..(Len(args) - 1) :
              LET a == Sum(SubSeq(args, 1, n))
                  b == Sum(SubSeq(args, n + 1, Len(args)))
              IN  /\ reduce(bank, add(b, a), last.to) = last.out
                  /\ (Len(args) = 2 /\ ~eq(a, b)) => ~eq(add(a, b), add(b, a))
        /\ Len(args) = 3 =>
              reduce(bank, add(args[1], add(args[2], args[3])), last.to) = last.out

\* Three values of both currencies, two of them in the currency divided by a
\* rate of 2, reduced to a Money.
C10_MixedSumReduced ==
    /\ last.op = "reduce"
    /\ Len(args) = 3
    /\ args[1][1][1] # last.to
    /\ args[2][1][1] = last.to
    /\ args[3][1][1] # last.to
    /\ args[1][1][2] # args[3][1][2]
    /\ Stored(args[1][1][1], last.to)
    /\ bank.rates[<<args[1][1][1], last.to>>] = 2
    /\ last.out.kind = "Money"
    /\ last.out.money[1][2] # 0

====
